---- MODULE Spec2Model ----
(***************************************************************************)
(* A model of the publish pipeline of electron-simple-publisher:          *)
(* lib/transport/abstract.js (AbstractTransport) and the publish command  *)
(* (publish, publishAssets, publishOsxReleaseFile).                       *)
(*                                                                         *)
(* Strings are sequences of tokens.  A token is either a character the    *)
(* code looks at ("/", "-", " ", "v", a tab) or a run of characters it    *)
(* never looks into ("Setup.exe", "1.0.0").  JavaScript objects are       *)
(* functions from property names to values; JavaScript values whose type  *)
(* matters to the code are tagged records (JsObject, JsNull, ...).        *)
(***************************************************************************)
EXTENDS Naturals, Sequences, FiniteSets, TLC

VARIABLES
  remoteUrl,   \* options.transport.remoteUrl
  builds,      \* commandOptions.builds: the builds of this invocation
  cur,         \* index in builds of the build being published (0: none yet)
  pc,          \* position in publish()'s promise chain
  idx,         \* publishAssets: index of the next asset of the for-in loop
  uploaded,    \* publishAssets: the dedup cache  filePath -> url | ''
  result,      \* publishAssets: result[name]
  resultLocal, \* publishAssets: result.local[name]
  ops,         \* the transport / filesystem operations publish() has started
  failedAt,    \* the step that failed in this publish ("none" if none did)
  opsAtFail,   \* ops at the moment that step failed
  remote,      \* updates.json as stored at the hosting
  lastFetch,   \* outcome and result of the last fetchUpdatesJson, if one
               \* was made since the current publish began
  lastCall,    \* the last updateUpdatesJson call since then: build, data,
               \* the manifest before it, how it ended
  writer,      \* manifest key -> version of the build whose call wrote it
  calls,       \* number of updateUpdatesJson calls made outside publish()
  localJson,   \* what duplicateUpdatesJson appended to the local updates.json
  mirror,      \* files copied into the local archive mirror
  listeners,   \* number of 'progress' listeners registered on the transport
  archive,     \* the last compressReleases call: destination and entries
  releaseJson, \* what publishOsxReleaseFile wrote to release.json
  fileName,    \* normalizeFileName: the argument
  normalized,  \* normalizeFileName: its result, and the result of a second pass
  progress,    \* onProgress: the progress event
  rendered,    \* onProgress: what it handed to line(), or the error it raised
  options,     \* normalize: the options before transformBuilds
  normalOptions, \* normalize: how it ended and the builds it resolved
  inFlight,    \* the transport operations started and not yet settled
  link         \* publishAssets: per asset, how far its link of the promise
               \* chain has got, and the url its upload resolved to

pubVars  == <<remoteUrl, builds, cur, pc, idx, uploaded, result, resultLocal, ops,
              failedAt, opsAtFail, localJson, mirror, listeners, archive,
              releaseJson>>
manVars  == <<remote, lastFetch, lastCall, writer, calls>>
normVars == <<fileName, normalized>>
progVars == <<progress, rendered>>
optVars  == <<options, normalOptions>>
flightVars == <<inFlight, link>>
vars     == <<pubVars, manVars, normVars, progVars, optVars, flightVars>>

---------------------------------------------------------------------------
(* Bounds of the model *)

\* longest file name handed to normalizeFileName
MaxLen == 3
\* most builds in one invocation
MaxBuilds == 2
\* most direct updateUpdatesJson calls in one behaviour of SpecManifest
MaxCalls == 1

---------------------------------------------------------------------------
(* JavaScript values *)

EmptyObj == [k \in {} |-> <<>>]

\* undefined and null where a string is expected; '' is the empty sequence
Undefined == <<"\\undefined">>
Null      == <<"\\null">>
EmptyStr  == <<>>

Truthy(s) == s \notin {Undefined, Null, EmptyStr}

JsObject(o) == [tag |-> "object", obj |-> o]
JsNull      == [tag |-> "null", obj |-> EmptyObj]
JsFalse     == [tag |-> "false", obj |-> EmptyObj]
JsUndefined == [tag |-> "undefined", obj |-> EmptyObj]
JsZero      == [tag |-> "zero", obj |-> EmptyObj]
JsEmptyStr  == [tag |-> "emptystring", obj |-> EmptyObj]

\* the falsy values a caller can hand over as a removal signal
FalsySignals == {JsNull, JsFalse, JsUndefined, JsZero, JsEmptyStr}

\* JavaScript's typeof: typeof null is 'object'
TypeOf(v) ==
  CASE v.tag \in {"object", "null"} -> "object"
    [] v.tag = "false"              -> "boolean"
    [] v.tag = "undefined"          -> "undefined"
    [] v.tag = "zero"               -> "number"
    [] OTHER                        -> "string"

\* o[k] for an object o: undefined when o has no property k
Get(o, k) == IF k \in DOMAIN o THEN o[k] ELSE Undefined

\* Object.assign({}, a, b)
ObjectAssign(a, b) ==
  [k \in DOMAIN a \cup DOMAIN b |-> IF k \in DOMAIN b THEN b[k] ELSE a[k]]

\* o[k] = v
SetProp(o, k, v) == [x \in DOMAIN o \cup {k} |-> IF x = k THEN v ELSE o[x]]

\* delete o[k]
DeleteProp(o, k) == [x \in DOMAIN o \ {k} |-> o[x]]

---------------------------------------------------------------------------
(* Strings *)

IsWhitespace(c) == c \in {" ", "\t"}

RECURSIVE Join(_, _)
\* parts.join(sep)
Join(parts, sep) ==
  IF Len(parts) = 0 THEN <<>>
  ELSE IF Len(parts) = 1 THEN parts[1]
  ELSE parts[1] \o sep \o Join(Tail(parts), sep)

RECURSIVE StripTrailingSlashes(_)
StripTrailingSlashes(s) ==
  IF Len(s) > 0 /\ s[Len(s)] = "/"
    THEN StripTrailingSlashes(SubSeq(s, 1, Len(s) - 1))
    ELSE s

RECURSIVE AfterLastSlash(_)
AfterLastSlash(s) ==
  IF \E i \in 1..Len(s) : s[i] = "/"
    THEN AfterLastSlash(Tail(s))
    ELSE s

\* path.basename(p): trailing separators are ignored, then the part after
\* the last separator is taken
Basename(p) == AfterLastSlash(StripTrailingSlashes(p))

RECURSIVE ReplaceWhitespace(_)
\* fileName.replace(/\s/g, '-'): every whitespace character, one by one
ReplaceWhitespace(s) ==
  IF Len(s) = 0 THEN <<>>
  ELSE <<IF IsWhitespace(s[1]) THEN "-" ELSE s[1]>>
       \o ReplaceWhitespace(Tail(s))

RECURSIVE CollapseWhitespace(_)
\* fileName.replace(/\s+/g, '-'): every run of whitespace becomes one hyphen
CollapseWhitespace(s) ==
  IF Len(s) = 0 THEN <<>>
  ELSE IF IsWhitespace(s[1])
    THEN IF Len(s) > 1 /\ IsWhitespace(s[2])
           THEN CollapseWhitespace(Tail(s))
           ELSE <<"-">> \o CollapseWhitespace(Tail(s))
    ELSE <<s[1]>> \o CollapseWhitespace(Tail(s))

normalizeFileNameNoBasename(f) == ReplaceWhitespace(f)

normalizeFileName(f) == ReplaceWhitespace(Basename(f))

---------------------------------------------------------------------------
(* Configuration and builds *)

\* options.transport.remoteUrl: a plain host, and a base url that has the
\* path segment the win32 record strips
DefaultRemoteUrl == <<"http://host">>
RemoteUrls == {DefaultRemoteUrl, <<"http://host", "/", "RELEASES">>}

\* commandOptions.path
OutputPath == <<"dist">>

\* commandOptions['local-data']['archive-local-directory']
ArchiveLocalDirectory == <<"archive">>

\* options.fields: free fields of the configuration, copied into every record
OptionsFields == ("name" :> <<"App">>) @@ ("version" :> <<"0.0.0">>)

Platforms == {<<"darwin">>, <<"win32">>, <<"linux">>}
Versions  == {<<"1.0.0">>, <<"2.0.0">>}

\* the asset names, in the order add-assets-info fills build.assets
AssetNames == <<"install", "update", "metaFile">>

SetupPath    == <<"dist", "/", "My", " ", "App.exe">>
ReleasesPath == <<"dist", "/", "RELEASES">>
PathSet      == {SetupPath, ReleasesPath}

RECURSIVE MappingsOf(_)
\* every asset mapping over the given names: each name absent or one path
MappingsOf(names) ==
  IF Len(names) = 0 THEN {<<>>}
  ELSE LET rest == MappingsOf(Tail(names))
       IN  rest \cup { <<[name |-> Head(names), path |-> p]>> \o r :
                         p \in PathSet, r \in rest }

MakeBuild(platform, version, assets) ==
  [platform |-> platform, arch |-> <<"x64">>, channel |-> <<"prod">>,
   version |-> version, assets |-> assets, assetsPath |-> <<"dist">>]

AllBuilds ==
  { MakeBuild(p, v, a) : p \in Platforms, v \in Versions,
                         a \in MappingsOf(AssetNames) }

getBuildIdAlwaysVersioned(build, includeVersion) ==
  Join(<<build.platform, build.arch, build.channel, <<"v">> \o build.version>>,
       <<"-">>)

getBuildId(build, includeVersion) ==
  LET parts == <<build.platform, build.arch, build.channel>>
  IN  Join(IF includeVersion THEN Append(parts, <<"v">> \o build.version)
                             ELSE parts,
           <<"-">>)

getFileUrl(localFilePath, build) ==
  LET url == IF Len(remoteUrl) > 0 /\ remoteUrl[Len(remoteUrl)] = "/"
               THEN SubSeq(remoteUrl, 1, Len(remoteUrl) - 1)
               ELSE remoteUrl
  IN  Join(<<url, getBuildId(build, TRUE), normalizeFileName(localFilePath)>>,
           <<"/">>)

\* [commandOptions.path, archive-local-directory].join('/')
ArchiveDirectory == Join(<<OutputPath, ArchiveLocalDirectory>>, <<"/">>)

\* what uploadFile can resolve to: the file's url, or nothing for a backend
\* that exposes no direct url
UploadReturns(filePath, build) ==
  {getFileUrl(filePath, build), Undefined}

Op(o, p) == [op |-> o, path |-> p]

---------------------------------------------------------------------------
(* The manifest: fetchUpdatesJson, updateUpdatesJson *)

\* what http.get hands to the callback of fetchUpdatesJson
FetchOutcomes == {"error", "non200", "unparsable", "nullBody", "valid"}

Resolved(v) == [status |-> "resolved", value |-> v]
Rejected    == [status |-> "rejected", value |-> JsNull]

fetchUpdatesJsonNon200Rejects(outcome, store) ==
  CASE outcome \in {"error", "non200"} -> Rejected
    [] outcome = "unparsable"          -> Resolved(JsObject(EmptyObj))
    [] outcome = "nullBody"            -> Resolved(JsNull)
    [] OTHER                           -> Resolved(JsObject(store))

\* the promise of fetchUpdatesJson, by what the request came back with;
\* store is the manifest the hosting holds
fetchUpdatesJson(outcome, store) ==
  CASE outcome = "error"      -> Rejected
    [] outcome = "non200"     -> Resolved(JsObject(EmptyObj))
    [] outcome = "unparsable" -> Resolved(JsObject(EmptyObj))
    [] outcome = "nullBody"   -> Resolved(JsNull)
    [] OTHER                  -> Resolved(JsObject(store))

\* json || {}
OrEmpty(v) == IF v.tag = "object" THEN v.obj ELSE EmptyObj

\* json[buildId] && build.version === json[buildId].version
SameVersion(json, buildId, build) ==
  /\ buildId \in DOMAIN json
  /\ json[buildId].tag = "object"
  /\ build.version = Get(json[buildId].obj, "version")

mergeJsonShallowMerge(fetched, build, data) ==
  LET json    == OrEmpty(fetched)
      buildId == getBuildId(build, FALSE)
  IN  IF TypeOf(data) = "object"
        THEN SetProp(json, buildId,
               IF buildId \in DOMAIN json /\ data.tag = "object"
                 THEN JsObject(ObjectAssign(json[buildId].obj, data.obj))
                 ELSE data)
        ELSE IF SameVersion(json, buildId, build)
               THEN DeleteProp(json, buildId)
               ELSE json

mergeJsonVersionedKey(fetched, build, data) ==
  LET json    == OrEmpty(fetched)
      buildId == getBuildId(build, TRUE)
  IN  IF TypeOf(data) = "object"
        THEN SetProp(json, buildId, data)
        ELSE IF SameVersion(json, buildId, build)
               THEN DeleteProp(json, buildId)
               ELSE json

\* the first callback of updateUpdatesJson: the manifest to push
mergeJson(fetched, build, data) ==
  LET json    == OrEmpty(fetched)
      buildId == getBuildId(build, FALSE)
  IN  IF TypeOf(data) = "object"
        THEN SetProp(json, buildId, data)
        ELSE IF SameVersion(json, buildId, build)
               THEN DeleteProp(json, buildId)
               ELSE json

\* pushUpdatesJson(json) when it succeeds: the hosting holds json
pushUpdatesJson(json) == json

NoFetch == [outcome |-> "none", status |-> "none", value |-> JsNull]
NoCall  == [status |-> "none", build |-> MakeBuild(<<>>, <<>>, <<>>),
            data |-> JsUndefined, before |-> EmptyObj]

\* updateUpdatesJson(build, data): fetch, merge, push.  Changes manVars.
updateUpdatesJson(build, data, outcome, pushOk) ==
  LET fetch   == fetchUpdatesJson(outcome, remote)
      json    == mergeJson(fetch.value, build, data)
      buildId == getBuildId(build, FALSE)
      call(st) == [status |-> st, build |-> build, data |-> data,
                   before |-> remote]
  IN  /\ lastFetch' = [outcome |-> outcome, status |-> fetch.status,
                       value |-> fetch.value]
      /\ IF fetch.status = "rejected"
           THEN /\ lastCall' = call("fetchFailed")
                /\ UNCHANGED <<remote, writer>>
           ELSE IF pushOk
             THEN /\ lastCall' = call("pushed")
                  /\ remote' = pushUpdatesJson(json)
                  /\ writer' =
                       [k \in { x \in DOMAIN json :
                                  \/ x = buildId /\ data.tag = "object"
                                  \/ /\ x \in DOMAIN writer
                                     /\ x \in DOMAIN remote
                                     /\ json[x] = remote[x]
                                     /\ ~(x = buildId
                                          /\ TypeOf(data) = "object") } |->
                          IF k = buildId /\ data.tag = "object"
                            THEN build.version ELSE writer[k]]
             ELSE /\ lastCall' = call("pushFailed")
                  /\ UNCHANGED <<remote, writer>>

ManifestKeys == { getBuildId(MakeBuild(p, <<"1.0.0">>, <<>>), FALSE) :
                    p \in {<<"darwin">>, <<"win32">>} }

OldRecord(v) == ("version" :> v) @@ ("update" :> <<"http://old">>)

\* the manifests a run can start from
ManifestSet ==
  UNION { [S -> {JsObject(OldRecord(v)) : v \in Versions}] :
            S \in SUBSET ManifestKeys }

---------------------------------------------------------------------------
(* publish(build, options) *)

CurBuild == builds[cur]

\* a rejected promise: every later callback of the chain is skipped
Fail(step) ==
  /\ pc' = "failed"
  /\ failedAt' = step
  /\ opsAtFail' = ops'

\* publish(): register the progress listener, call beforeUpload
PublishBegin ==
  /\ pc \in {"idle", "done"}
  /\ cur < Len(builds)
  /\ cur' = cur + 1
  /\ listeners' = listeners + 1
  /\ ops' = <<Op("beforeUpload", <<>>)>>
  /\ pc' = "publishAssets"
  /\ failedAt' = "none"
  /\ opsAtFail' = <<>>
  /\ lastFetch' = NoFetch
  /\ lastCall' = NoCall
  /\ UNCHANGED <<remoteUrl, builds, idx, uploaded, result, resultLocal, localJson,
                 mirror, archive, releaseJson, remote, writer, calls,
                 normVars, progVars, optVars, flightVars>>

\* publish(): beforeUpload rejects
BeforeUploadFails ==
  /\ pc \in {"idle", "done"}
  /\ cur < Len(builds)
  /\ cur' = cur + 1
  /\ listeners' = listeners + 1
  /\ ops' = <<Op("beforeUpload", <<>>)>>
  /\ Fail("beforeUpload")
  /\ lastFetch' = NoFetch
  /\ lastCall' = NoCall
  /\ UNCHANGED <<remoteUrl, builds, idx, uploaded, result, resultLocal, localJson,
                 mirror, archive, releaseJson, remote, writer, calls,
                 normVars, progVars, optVars, flightVars>>

NoAssetsNeverThrown(assets) == FALSE

\* !Object.keys(assets).length
NoAssets(assets) == Len(assets) = 0

KeptCache(cache) == cache

\* const uploaded = {}: the dedup cache of this call
NewCache(cache) == EmptyObj

\* publishAssets(): fresh result and dedup cache, the no-assets error
PublishAssetsCall ==
  /\ pc = "publishAssets"
  /\ result' = EmptyObj
  /\ resultLocal' = EmptyObj
  /\ uploaded' = NewCache(uploaded)
  /\ idx' = 1
  /\ ops' = ops
  /\ IF NoAssets(CurBuild.assets)
       THEN Fail("publishAssets")
       ELSE pc' = "assets" /\ UNCHANGED <<failedAt, opsAtFail>>
  /\ UNCHANGED <<remoteUrl, builds, cur, localJson, mirror, listeners, archive,
                 releaseJson, manVars, normVars, progVars, optVars, flightVars>>

CacheMissIfFalsy(cache, filePath) ==
  ~(filePath \in DOMAIN cache /\ Truthy(cache[filePath]))

\* uploaded[filePath] === undefined
CacheMiss(cache, filePath) == filePath \notin DOMAIN cache

\* the operations one asset step starts, up to the mirror copy
AssetOps(filePath, withCopy) ==
  (IF CacheMiss(uploaded, filePath) THEN <<Op("uploadFile", filePath)>>
                                    ELSE <<>>)
  \o (IF withCopy THEN <<Op("duplicateMetaFiles", filePath)>> ELSE <<>>)

\* duplicateMetaFiles: the file copied into the mirror
MirrorFile(filePath, build) ==
  Join(<<ArchiveDirectory, getBuildId(build, TRUE), Basename(filePath)>>,
       <<"/">>)

\* publishAssets(): transport.uploadFile rejects
AssetUploadFails ==
  /\ pc = "assets"
  /\ idx \in 1..Len(CurBuild.assets)
  /\ LET filePath == CurBuild.assets[idx].path
     IN  /\ CacheMiss(uploaded, filePath)
         /\ ops' = ops \o AssetOps(filePath, FALSE)
  /\ Fail("uploadFile")
  /\ UNCHANGED <<remoteUrl, builds, cur, idx, uploaded, result, resultLocal, localJson,
                 mirror, listeners, archive, releaseJson, manVars,
                 normVars, progVars, optVars, flightVars>>

\* publishAssets(): fs.copyFileSync throws in duplicateMetaFiles
AssetCopyFails ==
  /\ pc = "assets"
  /\ idx \in 1..Len(CurBuild.assets)
  /\ LET filePath == CurBuild.assets[idx].path
     IN  ops' = ops \o AssetOps(filePath, TRUE)
  /\ Fail("duplicateMetaFiles")
  /\ UNCHANGED <<remoteUrl, builds, cur, idx, uploaded, result, resultLocal, localJson,
                 mirror, listeners, archive, releaseJson, manVars,
                 normVars, progVars, optVars, flightVars>>

LocalPathWithoutVersion(build, fileUrl) ==
  Join(<<getBuildId(build, FALSE), Basename(fileUrl)>>, <<"/">>)

\* [transport.getBuildId(build), path.basename(fileUrl)].join('/')
LocalPath(build, fileUrl) ==
  Join(<<getBuildId(build, TRUE), Basename(fileUrl)>>, <<"/">>)

\* publishAssets(): one asset of the loop: upload or cache hit, mirror copy,
\* result entry, cache entry
AssetStep ==
  /\ pc = "assets"
  /\ idx \in 1..Len(CurBuild.assets)
  /\ LET name     == CurBuild.assets[idx].name
         filePath == CurBuild.assets[idx].path
     IN  \E fileUrl \in (IF CacheMiss(uploaded, filePath)
                           THEN UploadReturns(filePath, CurBuild)
                           ELSE {uploaded[filePath]}) :
           /\ ops' = ops \o AssetOps(filePath, TRUE)
           /\ mirror' = mirror \cup {MirrorFile(filePath, CurBuild)}
           /\ IF Truthy(fileUrl)
                THEN /\ result' = SetProp(result, name, fileUrl)
                     /\ resultLocal' =
                          SetProp(resultLocal, name,
                                  LocalPath(CurBuild, fileUrl))
                ELSE UNCHANGED <<result, resultLocal>>
           /\ uploaded' = SetProp(uploaded, filePath,
                                  IF Truthy(fileUrl) THEN fileUrl
                                                     ELSE EmptyStr)
  /\ idx' = idx + 1
  /\ pc' = IF idx = Len(CurBuild.assets) THEN "post" ELSE "assets"
  /\ UNCHANGED <<remoteUrl, builds, cur, failedAt, opsAtFail, localJson, listeners,
                 archive, releaseJson, manVars, normVars, progVars, optVars, flightVars>>


RECURSIVE ReplaceFirst(_, _)
\* s.replace(pattern, ''): the first occurrence of pattern is removed
ReplaceFirst(s, pattern) ==
  IF Len(s) < Len(pattern) THEN s
  ELSE IF SubSeq(s, 1, Len(pattern)) = pattern
    THEN SubSeq(s, Len(pattern) + 1, Len(s))
    ELSE <<s[1]>> \o ReplaceFirst(Tail(s), pattern)

\* path.join(build.assetsPath, 'release.json')
ReleaseFilePath(build) == Join(<<build.assetsPath, <<"release.json">>>>, <<"/">>)

ReleaseDataWithoutUrl(assets) ==
  [url   |-> Undefined,
   name  |-> IF Truthy(Get(OptionsFields, "name"))
               THEN OptionsFields["name"] ELSE EmptyStr,
   notes |-> IF Truthy(Get(OptionsFields, "notes"))
               THEN OptionsFields["notes"] ELSE EmptyStr]

\* publishOsxReleaseFile(): the descriptor
ReleaseData(assets) ==
  [url   |-> Get(assets, "update"),
   name  |-> IF Truthy(Get(OptionsFields, "name"))
               THEN OptionsFields["name"] ELSE EmptyStr,
   notes |-> IF Truthy(Get(OptionsFields, "notes"))
               THEN OptionsFields["notes"] ELSE EmptyStr]

\* publish(): a darwin build: publishOsxReleaseFile resolves
OsxReleaseFile ==
  /\ pc = "post"
  /\ CurBuild.platform = <<"darwin">>
  /\ releaseJson' = ReleaseData(result)
  /\ ops' = ops \o <<Op("writeFileSync", ReleaseFilePath(CurBuild)),
                     Op("uploadFile", ReleaseFilePath(CurBuild))>>
  /\ \E releaseUrl \in UploadReturns(ReleaseFilePath(CurBuild), CurBuild) :
       result' = SetProp(result, "update", releaseUrl)
  /\ pc' = "manifest"
  /\ UNCHANGED <<remoteUrl, builds, cur, idx, uploaded, resultLocal, failedAt, opsAtFail,
                 localJson, mirror, listeners, archive, manVars, normVars, progVars, optVars, flightVars>>

\* publish(): a darwin build: writing or uploading the descriptor fails
OsxReleaseFileFails ==
  /\ pc = "post"
  /\ CurBuild.platform = <<"darwin">>
  /\ \E written \in BOOLEAN :
       IF written
         THEN /\ releaseJson' = ReleaseData(result)
              /\ ops' = ops \o <<Op("writeFileSync", ReleaseFilePath(CurBuild)),
                                 Op("uploadFile", ReleaseFilePath(CurBuild))>>
              /\ Fail("uploadFile")
         ELSE /\ releaseJson' = releaseJson
              /\ ops' = Append(ops, Op("writeFileSync",
                                       ReleaseFilePath(CurBuild)))
              /\ Fail("writeFileSync")
  /\ UNCHANGED <<remoteUrl, builds, cur, idx, uploaded, result, resultLocal, localJson,
                 mirror, listeners, archive, manVars, normVars, progVars, optVars, flightVars>>

\* publish(): any other platform: the assets pass through
PassAssets ==
  /\ pc = "post"
  /\ CurBuild.platform # <<"darwin">>
  /\ pc' = "manifest"
  /\ UNCHANGED <<remoteUrl, builds, cur, idx, uploaded, result, resultLocal, ops,
                 failedAt, opsAtFail, localJson, mirror, listeners, archive,
                 releaseJson, manVars, normVars, progVars, optVars, flightVars>>

ManifestDataFieldsLast(build, assets, local) ==
  LET data == ObjectAssign(
                ("update" :> Get(assets, "update"))
                  @@ ("update-local" :> Get(local, "update"))
                  @@ ("install" :> Get(assets, "install"))
                  @@ ("install-local" :> Get(local, "install"))
                  @@ ("version" :> build.version),
                OptionsFields)
  IN  IF build.platform = <<"win32">>
        THEN ObjectAssign(data,
               ("update" :> ReplaceFirst(Get(assets, "metaFile"),
                                         <<"/", "RELEASES">>))
                 @@ ("update-local" :> ReplaceFirst(Get(local, "metaFile"),
                                                    <<"/", "RELEASES">>)))
        ELSE data

\* publish(): the record of the build for updates.json
ManifestData(build, assets, local) ==
  LET data == ObjectAssign(
                OptionsFields,
                ("update" :> Get(assets, "update"))
                  @@ ("update-local" :> Get(local, "update"))
                  @@ ("install" :> Get(assets, "install"))
                  @@ ("install-local" :> Get(local, "install"))
                  @@ ("version" :> build.version))
  IN  IF build.platform = <<"win32">>
        THEN ObjectAssign(data,
               ("update" :> ReplaceFirst(Get(assets, "metaFile"),
                                         <<"/", "RELEASES">>))
                 @@ ("update-local" :> ReplaceFirst(Get(local, "metaFile"),
                                                    <<"/", "RELEASES">>)))
        ELSE data

\* assets.metaFile.replace(...) throws a TypeError on undefined
MetaFileMissing(build, assets) ==
  build.platform = <<"win32">> /\ "metaFile" \notin DOMAIN assets

\* publish(): build the record, duplicateUpdatesJson appends it locally
ManifestDuplicate ==
  /\ pc = "manifest"
  /\ IF MetaFileMissing(CurBuild, result)
       THEN /\ ops' = ops
            /\ Fail("manifestData")
            /\ UNCHANGED localJson
       ELSE /\ ops' = Append(ops, Op("duplicateUpdatesJson", <<>>))
            /\ localJson' = Append(localJson,
                                   ManifestData(CurBuild, result, resultLocal))
            /\ pc' = "update"
            /\ UNCHANGED <<failedAt, opsAtFail>>
  /\ UNCHANGED <<remoteUrl, builds, cur, idx, uploaded, result, resultLocal, mirror,
                 listeners, archive, releaseJson, manVars, normVars, progVars, optVars, flightVars>>

\* publish(): fs.appendFileSync throws in duplicateUpdatesJson
ManifestDuplicateFails ==
  /\ pc = "manifest"
  /\ ~MetaFileMissing(CurBuild, result)
  /\ ops' = Append(ops, Op("duplicateUpdatesJson", <<>>))
  /\ Fail("duplicateUpdatesJson")
  /\ UNCHANGED <<remoteUrl, builds, cur, idx, uploaded, result, resultLocal, localJson,
                 mirror, listeners, archive, releaseJson, manVars, normVars, progVars, optVars, flightVars>>

\* publish(): transport.updateUpdatesJson(build, data)
ManifestUpdate ==
  /\ pc = "update"
  /\ \E outcome \in FetchOutcomes, pushOk \in BOOLEAN :
       /\ updateUpdatesJson(CurBuild,
                            JsObject(ManifestData(CurBuild, result,
                                                  resultLocal)),
                            outcome, pushOk)
       /\ IF lastCall'.status = "fetchFailed"
            THEN /\ ops' = Append(ops, Op("fetchUpdatesJson", <<>>))
                 /\ Fail("fetchUpdatesJson")
            ELSE /\ ops' = ops \o <<Op("fetchUpdatesJson", <<>>),
                                    Op("pushUpdatesJson", <<>>)>>
                 /\ IF lastCall'.status = "pushed"
                      THEN pc' = "compress" /\ UNCHANGED <<failedAt, opsAtFail>>
                      ELSE Fail("pushUpdatesJson")
  /\ UNCHANGED <<remoteUrl, builds, cur, idx, uploaded, result, resultLocal, localJson,
                 mirror, listeners, archive, releaseJson, calls, normVars, progVars, optVars, flightVars>>

\* how tarGzip.compress can end
CompressOutcomes == {"done", "throws", "callbackError"}

RECURSIVE ReleaseEntries(_, _)
\* compressReleases(): [buildId, path.basename(asset)].join('/') per asset
ReleaseEntries(buildId, assets) ==
  IF Len(assets) = 0 THEN <<>>
  ELSE <<Join(<<buildId, Basename(Head(assets).path)>>, <<"/">>)>>
       \o ReleaseEntries(buildId, Tail(assets))

\* compressReleases(): builds is an array, so builds[buildId] is undefined
\* and buildIndex is 0, the first build of the invocation
CompressCall(build) ==
  LET buildId     == getBuildId(build, TRUE)
      buildAssets == builds[1].assets
  IN  [destination |-> Join(<<OutputPath, buildId \o <<".tar.gz">>>>, <<"/">>),
       source      |-> ArchiveDirectory,
       entries     |-> Append(ReleaseEntries(buildId, buildAssets),
                              <<"updates.json">>)]

compressSettlesRejectOnCallbackError(outcome) ==
  IF outcome = "done" THEN "resolved" ELSE "rejected"

\* compressReleases(): the promise.  A synchronous throw rejects; the
\* completion callback takes no argument and resolves whatever it is given
compressSettles(outcome) ==
  IF outcome = "throws" THEN "rejected" ELSE "resolved"

\* publish(): transport.compressReleases(build)
CompressReleases ==
  /\ pc = "compress"
  /\ ops' = Append(ops, Op("compressReleases", <<>>))
  /\ archive' = CompressCall(CurBuild)
  /\ \E outcome \in CompressOutcomes :
       IF compressSettles(outcome) = "rejected"
         THEN Fail("compressReleases")
         ELSE /\ pc' = "archive"
              /\ IF outcome = "callbackError"
                   THEN failedAt' = "compressReleases" /\ opsAtFail' = ops'
                   ELSE UNCHANGED <<failedAt, opsAtFail>>
  /\ UNCHANGED <<remoteUrl, builds, cur, idx, uploaded, result, resultLocal, localJson,
                 mirror, listeners, releaseJson, manVars, normVars, progVars, optVars, flightVars>>

\* publish(): transport.uploadReleaseArchive(filePath)
UploadReleaseArchive ==
  /\ pc = "archive"
  /\ ops' = Append(ops, Op("uploadReleaseArchive", archive.destination))
  /\ \E ok \in BOOLEAN :
       IF ok THEN pc' = "afterUpload" /\ UNCHANGED <<failedAt, opsAtFail>>
             ELSE Fail("uploadReleaseArchive")
  /\ UNCHANGED <<remoteUrl, builds, cur, idx, uploaded, result, resultLocal, localJson,
                 mirror, listeners, archive, releaseJson, manVars, normVars, progVars, optVars, flightVars>>

\* publish(): transport.afterUpload(build)
AfterUpload ==
  /\ pc = "afterUpload"
  /\ ops' = Append(ops, Op("afterUpload", <<>>))
  /\ \E ok \in BOOLEAN :
       IF ok THEN pc' = "done" /\ UNCHANGED <<failedAt, opsAtFail>>
             ELSE Fail("afterUpload")
  /\ UNCHANGED <<remoteUrl, builds, cur, idx, uploaded, result, resultLocal, localJson,
                 mirror, listeners, archive, releaseJson, manVars, normVars, progVars, optVars, flightVars>>

---------------------------------------------------------------------------
(* Specifications *)

NoArchive == [destination |-> <<>>, source |-> <<>>, entries |-> <<>>]
NoRelease == [url |-> Undefined, name |-> EmptyStr, notes |-> EmptyStr]

InitPublish ==
  /\ cur = 0
  /\ pc = "idle"
  /\ idx = 1
  /\ uploaded = EmptyObj
  /\ result = EmptyObj
  /\ resultLocal = EmptyObj
  /\ ops = <<>>
  /\ failedAt = "none"
  /\ opsAtFail = <<>>
  /\ localJson = <<>>
  /\ mirror = {}
  /\ listeners = 0
  /\ archive = NoArchive
  /\ releaseJson = NoRelease

InitManifest ==
  /\ remote \in ManifestSet
  /\ lastFetch = NoFetch
  /\ lastCall = NoCall
  /\ writer = EmptyObj
  /\ calls = 0

NotNormalized == [done |-> FALSE, once |-> <<>>, twice |-> <<>>]

NoProgress == [name |-> <<>>, transferred |-> 0, total |-> 0]
NotRendered == [status |-> "none", bar |-> 0, percentage |-> 0,
                transferred |-> [value |-> 0, unit |-> "B"],
                total |-> [value |-> 0, unit |-> "B"]]

NoOptions == [command |-> "none", platform |-> <<>>, arch |-> <<>>,
              channel |-> <<>>, version |-> <<>>, builds |-> <<>>]
NotNormalOptions == [status |-> "none", builds |-> <<>>]

InitProgress ==
  /\ progress = NoProgress
  /\ rendered = NotRendered
  /\ options = NoOptions
  /\ normalOptions = NotNormalOptions
  /\ inFlight = {}
  /\ link = <<>>

InitNormalize ==
  /\ fileName = <<>>
  /\ normalized = NotNormalized
  /\ InitProgress

\* one publish of one build, of any platform, version and asset mapping
Init ==
  /\ remoteUrl \in RemoteUrls
  /\ builds \in { <<b>> : b \in AllBuilds }
  /\ InitPublish
  /\ InitManifest
  /\ InitNormalize

Next ==
  \/ PublishBegin
  \/ BeforeUploadFails
  \/ PublishAssetsCall
  \/ AssetUploadFails
  \/ AssetCopyFails
  \/ AssetStep
  \/ OsxReleaseFile
  \/ OsxReleaseFileFails
  \/ PassAssets
  \/ ManifestDuplicate
  \/ ManifestDuplicateFails
  \/ ManifestUpdate
  \/ CompressReleases
  \/ UploadReleaseArchive
  \/ AfterUpload

Spec == Init /\ [][Next]_vars

---------------------------------------------------------------------------
(* updateUpdatesJson called directly *)

CallBuilds ==
  { MakeBuild(p, v, <<>>) : p \in {<<"darwin">>, <<"win32">>}, v \in Versions }

\* structured records: with a version, and one without
RecordSet ==
  { ("version" :> v) @@ ("install" :> <<"http://new">>) : v \in Versions }
    \cup { ("install" :> <<"http://new">>) }

DataSet == { JsObject(r) : r \in RecordSet } \cup FalsySignals

\* transport.updateUpdatesJson(build, data) for any build and data
UpdateCall ==
  /\ calls < MaxCalls
  /\ calls' = calls + 1
  /\ \E b \in CallBuilds, d \in DataSet, outcome \in FetchOutcomes,
        pushOk \in BOOLEAN :
       updateUpdatesJson(b, d, outcome, pushOk)
  /\ UNCHANGED <<pubVars, normVars, progVars, optVars, flightVars>>

InitCalls ==
  /\ remoteUrl = DefaultRemoteUrl
  /\ builds = <<>>
  /\ InitPublish
  /\ InitManifest
  /\ InitNormalize

NextCalls == UpdateCall

SpecManifest == InitCalls /\ [][NextCalls]_vars

---------------------------------------------------------------------------
(* Several builds published one after the other, and removals *)

SeqsUpTo(S, n) == UNION { [1..k -> S] : k \in 1..n }

\* the builds of an invocation are drawn from these
BuildSet ==
  { MakeBuild(<<"win32">>, <<"1.0.0">>,
              <<[name |-> "install", path |-> SetupPath],
                [name |-> "update", path |-> SetupPath],
                [name |-> "metaFile", path |-> ReleasesPath]>>),
    MakeBuild(<<"darwin">>, <<"2.0.0">>,
              <<[name |-> "update", path |-> SetupPath]>>),
    MakeBuild(<<"darwin">>, <<"1.0.0">>,
              <<[name |-> "install", path |-> ReleasesPath]>>) }

\* the builds the remove command is run for: both versions of one triple
RemoveBuilds == { MakeBuild(<<"darwin">>, v, <<>>) : v \in Versions }

\* the removal signals it hands over: a boolean and an object-typed falsy
\* value
RemovalSignals == {JsFalse, JsNull}

\* the remove command: transport.updateUpdatesJson(build, <removal signal>)
\* for a build named on the command line, run between two publishes
RemoveCall ==
  /\ pc = "done"
  /\ cur < Len(builds)
  /\ calls < MaxCalls
  /\ calls' = calls + 1
  /\ \E b \in RemoveBuilds, signal \in RemovalSignals,
        outcome \in FetchOutcomes, pushOk \in BOOLEAN :
       updateUpdatesJson(b, signal, outcome, pushOk)
  /\ UNCHANGED <<pubVars, normVars, progVars, optVars, flightVars>>

InitBuilds ==
  /\ remoteUrl = DefaultRemoteUrl
  /\ builds \in SeqsUpTo(BuildSet, MaxBuilds)
  /\ InitPublish
  /\ remote \in { m \in ManifestSet :
                    \A k \in DOMAIN m :
                      /\ k = getBuildId(MakeBuild(<<"darwin">>, <<>>, <<>>),
                                        FALSE)
                      /\ m[k] = JsObject(OldRecord(<<"1.0.0">>)) }
  /\ lastFetch = NoFetch
  /\ lastCall = NoCall
  /\ writer = EmptyObj
  /\ calls = 0
  /\ InitNormalize

NextBuilds ==
  \/ Next
  \/ RemoveCall

SpecBuilds == InitBuilds /\ [][NextBuilds]_vars

---------------------------------------------------------------------------
(* normalizeFileName on its own *)

Alphabet == {"a", " ", "\t", "/", "-"}

FileNames == UNION { [1..k -> Alphabet] : k \in 0..MaxLen }

\* normalizeFileName(fileName), and normalizeFileName of its result
NormalizeCall ==
  /\ ~normalized.done
  /\ normalized' = [done  |-> TRUE,
                    once  |-> normalizeFileName(fileName),
                    twice |-> normalizeFileName(normalizeFileName(fileName))]
  /\ UNCHANGED <<fileName, pubVars, manVars, progVars, optVars, flightVars>>

InitFileName ==
  /\ remoteUrl = DefaultRemoteUrl
  /\ builds = <<>>
  /\ InitPublish
  /\ remote = EmptyObj
  /\ lastFetch = NoFetch
  /\ lastCall = NoCall
  /\ writer = EmptyObj
  /\ calls = 0
  /\ fileName \in FileNames
  /\ normalized = NotNormalized
  /\ InitProgress

NextNormalize == NormalizeCall

SpecNormalize == InitFileName /\ [][NextNormalize]_vars

---------------------------------------------------------------------------
(* Properties of one publish *)

\* how often an operation was started on a path
CountOp(o, p) == Cardinality({ i \in 1..Len(ops) : ops[i] = Op(o, p) })

HasOp(o) == \E i \in 1..Len(ops) : ops[i].op = o

\* publishAssets has handled the assets before index n of the current build
Handled(n) ==
  /\ cur > 0
  /\ pc \in {"assets", "post"}
  /\ n <= Len(CurBuild.assets)
  /\ n < idx

\* C1: in one publishAssets call no path is uploaded twice; every path of an
\* asset the loop has handled was uploaded exactly once, also when the upload
\* returned a falsy url (cached as ''), and two handled names that share a
\* path have the same url in the result (or are both absent from it).
C1_DedupUploadsOnce ==
  /\ \A p \in PathSet : CountOp("uploadFile", p) <= 1
  /\ \A i \in 1..Len(AssetNames) :
       Handled(i) =>
         /\ CountOp("uploadFile", CurBuild.assets[i].path) = 1
         /\ \A j \in 1..Len(AssetNames) :
              (Handled(j) /\ CurBuild.assets[j].path = CurBuild.assets[i].path)
                => Get(result, CurBuild.assets[j].name)
                     = Get(result, CurBuild.assets[i].name)

\* publishAssets has succeeded for a mapping in which two names share a path
\* whose upload returned a falsy url
C1_Witness ==
  /\ pc = "post"
  /\ \E i, j \in 1..Len(CurBuild.assets) :
       /\ i < j
       /\ CurBuild.assets[i].path = CurBuild.assets[j].path
       /\ uploaded[CurBuild.assets[i].path] = EmptyStr

\* C2: for a build with an empty asset mapping publishAssets throws the
\* no-assets error: nothing is uploaded or copied to the mirror, and publish
\* ends in failure with no manifest write, archive build, archive upload or
\* afterUpload.
C2_NoAssetsFails ==
  (cur > 0 /\ Len(CurBuild.assets) = 0 /\ pc # "publishAssets") =>
    /\ pc = "failed"
    /\ failedAt \in {"beforeUpload", "publishAssets"}
    /\ ops = <<Op("beforeUpload", <<>>)>>
    /\ mirror = {}
    /\ localJson = <<>>
    /\ lastCall = NoCall
    /\ archive = NoArchive

\* publishAssets was called for a build without assets and has thrown
C2_Witness ==
  /\ cur > 0
  /\ Len(CurBuild.assets) = 0
  /\ pc = "failed"
  /\ failedAt = "publishAssets"

\* the place of an operation in the order of steps the pipeline is said to
\* follow
StepRank(o) ==
  CASE o.op = "beforeUpload"                          -> 1
    [] o.op = "uploadFile" /\ o.path \in PathSet      -> 2
    [] o.op = "duplicateMetaFiles"                    -> 2
    [] o.op = "writeFileSync"                         -> 3
    [] o.op = "uploadFile" /\ o.path \notin PathSet   -> 3
    [] o.op \in {"fetchUpdatesJson", "pushUpdatesJson"} -> 4
    [] o.op = "duplicateUpdatesJson"                  -> 5
    [] o.op = "compressReleases"                      -> 6
    [] o.op = "uploadReleaseArchive"                  -> 7
    [] OTHER                                          -> 8

CountStep(name) == Cardinality({ i \in 1..Len(ops) : ops[i].op = name })

\* C6: in a successful publish the steps run once each, in the order
\* beforeUpload, asset uploads, platform post-processing, remote manifest
\* update, local manifest duplicate, archive build, archive upload,
\* afterUpload.
C6_StepOrder ==
  pc = "done" =>
    /\ \A i, j \in 1..Len(ops) : i < j => StepRank(ops[i]) <= StepRank(ops[j])
    /\ \A name \in {"beforeUpload", "pushUpdatesJson", "duplicateUpdatesJson",
                    "compressReleases", "uploadReleaseArchive", "afterUpload"} :
         CountStep(name) = 1

\* C7: once a step of publish has failed, publish has ended in failure and
\* no operation was started after the failing one; afterUpload was not
\* called.
C7_FailureAborts ==
  failedAt # "none" =>
    /\ pc = "failed"
    /\ ops = opsAtFail
    /\ failedAt # "afterUpload" => ~HasOp("afterUpload")

\* C8 as claimed: whatever the request for the manifest comes back with,
\* fetchUpdatesJson resolves, updateUpdatesJson reaches the push and publish
\* does not fail at the fetch.
C8_FetchNeverFails ==
  lastFetch.outcome # "none" =>
    /\ lastFetch.status = "resolved"
    /\ lastCall.status \in {"pushed", "pushFailed"}
    /\ failedAt # "fetchUpdatesJson"

\* C8 as amended: a non-200 response and an unparsable body resolve to {},
\* a parsable body resolves to what it parses to, and in these cases
\* updateUpdatesJson reaches the push; a request error rejects, nothing is
\* pushed and publish fails.
C8_FetchDowngrade ==
  /\ lastFetch.outcome \in {"non200", "unparsable"} =>
       /\ lastFetch.status = "resolved"
       /\ lastFetch.value = JsObject(EmptyObj)
       /\ lastCall.status \in {"pushed", "pushFailed"}
  /\ lastFetch.outcome = "valid" =>
       /\ lastFetch.status = "resolved"
       /\ lastFetch.value = JsObject(lastCall.before)
       /\ lastCall.status \in {"pushed", "pushFailed"}
  /\ lastFetch.outcome = "nullBody" =>
       /\ lastFetch.status = "resolved"
       /\ lastCall.status \in {"pushed", "pushFailed"}
  /\ lastFetch.outcome = "error" =>
       /\ lastFetch.status = "rejected"
       /\ lastCall.status = "fetchFailed"
       /\ remote = lastCall.before
       /\ pc = "failed"
       /\ failedAt = "fetchUpdatesJson"
       /\ ~HasOp("pushUpdatesJson")

\* the manifest held entries, the fetch came back non-200, and the manifest
\* built from {} was pushed
C8_Witness ==
  /\ lastFetch.outcome = "non200"
  /\ lastCall.status = "pushed"
  /\ lastCall.before # EmptyObj
  /\ pc = "compress"

\* C9: when the compression fails, by a throw or through the completion
\* callback, compressReleases fails and publish calls neither
\* uploadReleaseArchive nor afterUpload.
C9_CompressionFailureFails ==
  failedAt = "compressReleases" =>
    /\ pc = "failed"
    /\ ~HasOp("uploadReleaseArchive")
    /\ ~HasOp("afterUpload")

---------------------------------------------------------------------------
(* Properties of updateUpdatesJson *)

\* the manifest a fetch yields after the call
FetchedAfter == OrEmpty(fetchUpdatesJson("valid", remote).value)

\* the manifest the call fetched
FetchedBefore == OrEmpty(lastFetch.value)

CallKey == getBuildId(lastCall.build, FALSE)

\* C3: after updateUpdatesJson(B, R) with a structured record R has pushed,
\* a fetch yields a manifest that holds exactly R at getBuildId(B, false)
\* and every other key of the fetched manifest M with its value unchanged,
\* and no further key.
C3_RecordOverwrite ==
  (lastCall.status = "pushed" /\ lastCall.data.tag = "object") =>
    /\ CallKey \in DOMAIN FetchedAfter
    /\ FetchedAfter[CallKey] = lastCall.data
    /\ DOMAIN FetchedAfter = DOMAIN FetchedBefore \cup {CallKey}
    /\ \A k \in DOMAIN FetchedBefore \ {CallKey} :
         FetchedAfter[k] = FetchedBefore[k]

\* a record was pushed over an existing record of the same key, in a
\* manifest that holds another key too
C3_Witness ==
  /\ lastCall.status = "pushed"
  /\ lastCall.data.tag = "object"
  /\ CallKey \in DOMAIN FetchedBefore
  /\ FetchedBefore[CallKey] # lastCall.data
  /\ DOMAIN FetchedBefore \ {CallKey} # {}

\* C4: after updateUpdatesJson(B, s) with a falsy removal signal s (null
\* included) on a manifest M whose entry at getBuildId(B, false) has version
\* V, the pushed manifest equals M when B.version differs from V, and is M
\* without that key when B.version equals V.
C4_RemovalOnlyOnSameVersion ==
  ( /\ lastCall.status = "pushed"
    /\ lastCall.data \in FalsySignals
    /\ CallKey \in DOMAIN FetchedBefore
    /\ FetchedBefore[CallKey].tag = "object" ) =>
    IF lastCall.build.version = Get(FetchedBefore[CallKey].obj, "version")
      THEN remote = DeleteProp(FetchedBefore, CallKey)
      ELSE remote = FetchedBefore

\* the triple of a manifest key: every key getBuildId gives the builds of
\* one platform, arch and channel, with or without version
TripleKeys(platform) ==
  { getBuildId(MakeBuild(platform, v, <<>>), withVersion) :
      v \in Versions, withVersion \in BOOLEAN }

\* C5: after any sequence of publishes and removals the manifest holds at
\* most one entry per platform-arch-channel, and every record a call wrote
\* carries the version of the build of that call.
C5_OneRecordPerTriple ==
  /\ \A p \in Platforms : Cardinality(DOMAIN remote \cap TripleKeys(p)) <= 1
  /\ \A k \in DOMAIN writer :
       /\ k \in DOMAIN remote
       /\ remote[k].tag = "object"
       /\ Get(remote[k].obj, "version") = writer[k]

\* a second publish has overwritten the record the first publish wrote for
\* the same triple with another version
C5_Witness ==
  /\ cur = 2
  /\ pc = "compress"
  /\ builds[1].platform = builds[2].platform
  /\ builds[1].version # builds[2].version
  /\ lastCall.status = "pushed"
  /\ CallKey \in DOMAIN lastCall.before
  /\ CallKey \in DOMAIN writer
  /\ writer[CallKey] = builds[2].version
  /\ Get(lastCall.before[CallKey].obj, "version") = builds[1].version

---------------------------------------------------------------------------
(* Properties of normalizeFileName *)

NoSlash(s) == \A i \in 1..Len(s) : s[i] # "/"

NoWhitespace(s) == \A i \in 1..Len(s) : ~IsWhitespace(s[i])

\* C10 as claimed: normalizeFileName is idempotent, its result has no
\* directory component and no whitespace, and every run of whitespace of the
\* base name has become a single hyphen.
C10_RunsToOneHyphen ==
  normalized.done =>
    /\ normalized.twice = normalized.once
    /\ NoSlash(normalized.once)
    /\ NoWhitespace(normalized.once)
    /\ normalized.once = CollapseWhitespace(Basename(fileName))

\* C10 as amended: normalizeFileName is idempotent, its result has no
\* directory component and no whitespace, and every whitespace character of
\* the base name has become one hyphen: the result is as long as the base
\* name and differs from it only there.
C10_EachWhitespaceToHyphen ==
  normalized.done =>
    /\ normalized.twice = normalized.once
    /\ NoSlash(normalized.once)
    /\ NoWhitespace(normalized.once)
    /\ Len(normalized.once) = Len(Basename(fileName))
    /\ \A i \in 1..Len(normalized.once) :
         IF IsWhitespace(Basename(fileName)[i])
           THEN normalized.once[i] = "-"
           ELSE normalized.once[i] = Basename(fileName)[i]

\* a name with a directory and two whitespace characters in a row was
\* normalized
C10_Witness ==
  /\ normalized.done
  /\ ~NoSlash(fileName)
  /\ \E i \in 1..(Len(Basename(fileName)) - 1) :
       IsWhitespace(Basename(fileName)[i])
         /\ IsWhitespace(Basename(fileName)[i + 1])
  /\ Len(normalized.once) > Len(CollapseWhitespace(Basename(fileName)))

---------------------------------------------------------------------------
(* The win32 record *)

\* s without the trailing suffix, if it ends with it
StripSuffix(s, suffix) ==
  IF /\ Len(s) >= Len(suffix)
     /\ SubSeq(s, Len(s) - Len(suffix) + 1, Len(s)) = suffix
    THEN SubSeq(s, 1, Len(s) - Len(suffix))
    ELSE s

\* the record the current publish handed to updateUpdatesJson
PushedRecord == lastCall.data.obj

\* C11: the record of a win32 build that was pushed has update and
\* update-local equal to the metaFile url and local path with only the
\* trailing '/RELEASES' removed, and install, install-local and version as
\* on other platforms; a win32 build without a metaFile url never gets as far
\* as a manifest write.
C11_Win32TrailingSuffix ==
  (cur > 0 /\ CurBuild.platform = <<"win32">>) =>
    /\ (lastCall.status = "pushed" =>
          /\ PushedRecord["update"] =
               StripSuffix(result["metaFile"], <<"/", "RELEASES">>)
          /\ PushedRecord["update-local"] =
               StripSuffix(resultLocal["metaFile"], <<"/", "RELEASES">>)
          /\ PushedRecord["install"] = Get(result, "install")
          /\ PushedRecord["install-local"] = Get(resultLocal, "install")
          /\ PushedRecord["version"] = CurBuild.version)
    /\ ("metaFile" \notin DOMAIN result =>
          /\ ~HasOp("duplicateUpdatesJson")
          /\ ~HasOp("pushUpdatesJson")
          /\ pc \notin {"update", "compress", "archive", "afterUpload",
                        "done"})

---------------------------------------------------------------------------
(* The result of publishAssets *)

\* publishAssets has just resolved: the next callback of publish() is due
AssetsPublished == cur > 0 /\ pc = "post"

---------------------------------------------------------------------------
(* onProgress(progress), formatSize(bytes) *)

\* most bytes of a small progress event
MaxBytes == 8

\* the while loop pads the bar up to this length
BarWidth == 49

\* a / b on JavaScript numbers: 0 / 0 is NaN, n / 0 is Infinity
Divide(a, b) ==
  IF b = 0
    THEN [kind |-> IF a = 0 THEN "NaN" ELSE "Infinity", num |-> 0, den |-> 1]
    ELSE [kind |-> "finite", num |-> a, den |-> b]

\* Math.floor(k * value): NaN and Infinity stay what they are
FloorTimes(k, value) ==
  IF value.kind = "finite"
    THEN [kind |-> "finite", n |-> (k * value.num) \div value.den]
    ELSE [kind |-> value.kind, n |-> 0]

\* Math.round(value * k)
RoundTimes(value, k) ==
  IF value.kind = "finite"
    THEN [kind |-> "finite",
          n |-> (2 * k * value.num + value.den) \div (2 * value.den)]
    ELSE [kind |-> value.kind, n |-> 0]

\* new Array(n) throws a RangeError unless n is an array length
ValidArrayLength(n) == n.kind = "finite"

\* new Array(n).join(c).length for a one-character c
JoinedLength(n) == IF n = 0 THEN 0 ELSE n - 1

\* while (bar.length < 49) bar += '.'
Padded(len) == IF len < BarWidth THEN BarWidth ELSE len

RECURSIVE FloorLog1024(_)
\* Math.floor(Math.log(bytes) / Math.log(1024)) for bytes > 0
FloorLog1024(bytes) ==
  IF bytes < 1024 THEN 0 ELSE 1 + FloorLog1024(bytes \div 1024)

RECURSIVE Pow1024(_)
Pow1024(e) == IF e = 0 THEN 1 ELSE 1024 * Pow1024(e - 1)

\* 'BKMGTP'.charAt(e).replace('B', '') + 'B'
UnitOf(e) ==
  CASE e = 0 -> "B" [] e = 1 -> "KB" [] e = 2 -> "MB" [] OTHER -> "GB"

\* formatSize(bytes): the number, in hundredths, and the unit
formatSize(bytes) ==
  IF bytes = 0 THEN [value |-> 0, unit |-> "B"]
  ELSE LET e == FloorLog1024(bytes)
       IN  [value |-> (200 * bytes + Pow1024(e)) \div (2 * Pow1024(e)),
            unit  |-> UnitOf(e)]

\* onProgress(progress): what reaches line(), or the error raised on the way
onProgress(event) ==
  LET value      == Divide(event.transferred, event.total)
      percentage == RoundTimes(value, 100)
      length     == FloorTimes(50, value)
  IN  IF ~ValidArrayLength(length)
        THEN [status |-> "RangeError", bar |-> 0, percentage |-> 0,
              transferred |-> [value |-> 0, unit |-> "B"],
              total |-> [value |-> 0, unit |-> "B"]]
        ELSE [status      |-> "rendered",
              bar         |-> Padded(JoinedLength(length.n)),
              percentage  |-> percentage.n,
              transferred |-> formatSize(event.transferred),
              total       |-> formatSize(event.total)]

\* the byte counts of the progress events
ByteCounts == 0..MaxBytes \cup {1024, 1536, 1048576}

\* the listener is called with one progress event
ProgressCall ==
  /\ rendered.status = "none"
  /\ rendered' = onProgress(progress)
  /\ UNCHANGED <<progress, pubVars, manVars, fileName, normalized, optVars, flightVars>>

InitProgressEvent ==
  /\ remoteUrl = DefaultRemoteUrl
  /\ builds = <<>>
  /\ InitPublish
  /\ remote = EmptyObj
  /\ lastFetch = NoFetch
  /\ lastCall = NoCall
  /\ writer = EmptyObj
  /\ calls = 0
  /\ fileName = <<>>
  /\ normalized = NotNormalized
  /\ progress \in [name : {<<"App.exe">>}, transferred : ByteCounts,
                   total : ByteCounts]
  /\ rendered = NotRendered
  /\ options = NoOptions
  /\ normalOptions = NotNormalOptions
  /\ inFlight = {}
  /\ link = <<>>

NextProgress == ProgressCall

SpecProgress == InitProgressEvent /\ [][NextProgress]_vars

\* C13: onProgress handles the event with total = 0 and transferred = 0
\* without raising an error, rendering the sizes as '0 B'; for an event with
\* 0 < transferred <= total it renders a bar of fixed width.
C13_ZeroTotalRendered ==
  rendered.status # "none" =>
    /\ (progress.total = 0 /\ progress.transferred = 0 =>
          /\ rendered.status = "rendered"
          /\ rendered.transferred = [value |-> 0, unit |-> "B"]
          /\ rendered.total = [value |-> 0, unit |-> "B"])
    /\ (0 < progress.transferred /\ progress.transferred <= progress.total =>
          /\ rendered.status = "rendered"
          /\ rendered.bar = BarWidth)

---------------------------------------------------------------------------
(* normalize(options): transformBuilds, normalizeBuild,                    *)
(* validateIfRemoveCommand                                                 *)

BuildFields == <<"platform", "arch", "channel", "version">>

RECURSIVE Split(_, _)
\* s.split(sep)
Split(s, sep) ==
  IF \A i \in 1..Len(s) : s[i] # sep THEN <<s>>
  ELSE LET i == CHOOSE k \in 1..Len(s) :
                  s[k] = sep /\ \A j \in 1..(k - 1) : s[j] # sep
       IN  <<SubSeq(s, 1, i - 1)>> \o Split(SubSeq(s, i + 1, Len(s)), sep)

\* one element of an array destructuring: undefined past the end
Part(parts, i) == IF i <= Len(parts) THEN parts[i] ELSE Undefined

\* a build as given: a build-id string or an object
BuildString(str) == [type |-> "string", str |-> str, obj |-> EmptyObj]
BuildObject(obj) == [type |-> "object", str |-> <<>>, obj |-> obj]

\* normalizeBuild: const [ platform, arch, channel, version ] = build.split('-')
ParseBuild(build) ==
  IF build.type = "string"
    THEN LET parts == Split(build.str, "-")
         IN  [f \in {"platform", "arch", "channel", "version"} |->
                Part(parts, CHOOSE i \in 1..4 : BuildFields[i] = f)]
    ELSE build.obj

\* normalizeBuild: a field the build lacks is taken from the options, except
\* for the remove command
WithDefaults(build, opts) ==
  IF opts.command # "remove"
    THEN [f \in DOMAIN build |->
            IF ~Truthy(build[f]) /\ Truthy(opts[f]) THEN opts[f] ELSE build[f]]
    ELSE build

\* normalizeBuild: build.version.indexOf('v') === 0: substring(1)
StripPrefix(version) ==
  IF Truthy(version) /\ version[1] = "v" THEN Tail(version) ELSE version

\* normalizeBuild(build, options): the build, or the error thrown
normalizeBuild(build, opts) ==
  LET filled   == WithDefaults(ParseBuild(build), opts)
      stripped == [filled EXCEPT !["version"] = StripPrefix(filled["version"])]
  IN  [threw |-> ~Truthy(stripped["version"]) /\ opts.command # "remove",
       build |-> stripped]

\* transformBuilds(options): the builds, or the error thrown
transformBuilds(opts) ==
  LET mapped == [i \in 1..Len(opts.builds) |->
                   normalizeBuild(opts.builds[i], opts)]
      listed == [i \in 1..Len(opts.builds) |-> mapped[i].build]
  IN  IF \E i \in 1..Len(mapped) : mapped[i].threw
        THEN [status |-> "error", builds |-> <<>>]
      ELSE IF opts.command = "remove"
        THEN [status |-> "ok", builds |-> listed]
      ELSE IF Len(listed) = 0
        THEN IF Truthy(opts.version)
               THEN [status |-> "ok",
                     builds |-> << [f \in {"platform", "arch", "channel",
                                           "version"} |-> opts[f]] >>]
               ELSE [status |-> "error", builds |-> <<>>]
      ELSE [status |-> "ok", builds |-> listed]

\* a token of digits.digits.digits
SemverTokens == {"1.0.0", "2.0.0"}

\* s.match(/\w+/): s has a word character
MatchesWord(s) == \E i \in 1..Len(s) : s[i] # "-"

MatchesSemverAnchored(s) == Len(s) = 1 /\ s[1] \in SemverTokens

\* s.match(/\d+\.\d+\.\d+/): the pattern occurs somewhere in s
MatchesSemver(s) == \E i \in 1..Len(s) : s[i] \in SemverTokens

\* validateIfRemoveCommand: the filter of invalid builds
InvalidBuild(build) ==
  \/ \E f \in DOMAIN build : ~Truthy(build[f])
  \/ ~(/\ MatchesWord(build["platform"])
       /\ MatchesWord(build["arch"])
       /\ MatchesWord(build["channel"])
       /\ MatchesSemver(build["version"]))

\* validateIfRemoveCommand(options) throws
validateIfRemoveCommand(opts, blds) ==
  /\ opts.command = "remove"
  /\ \/ Len(blds) = 0
     \/ \E i \in 1..Len(blds) : InvalidBuild(blds[i])

\* normalize(options) up to validateIfRemoveCommand
normalize(opts) ==
  LET transformed == transformBuilds(opts)
  IN  IF transformed.status = "ok"
           /\ validateIfRemoveCommand(opts, transformed.builds)
        THEN [status |-> "error", builds |-> <<>>]
        ELSE transformed

\* options.version: from the command line, the configuration or package.json
OptionVersions ==
  {Undefined, <<"1.0.0">>, <<"v", "1.0.0">>, <<"v", "v", "1.0.0">>}

\* the versions written in a build id or a build object
BuildVersions ==
  {<<"1.0.0">>, <<"v", "1.0.0">>, <<"v", "v", "1.0.0">>, <<"x", "1.0.0">>}

\* the builds as given on the command line or through the API
BuildInputs ==
  { BuildString(<<"darwin", "-", "x64", "-", "prod", "-">> \o v) :
      v \in BuildVersions }
    \cup { BuildString(<<"darwin", "-", "x64", "-", "prod">>) }
    \cup { BuildObject([platform |-> <<"win32">>, arch |-> <<"x64">>,
                        channel |-> <<"beta">>, version |-> v]) :
             v \in {Undefined, <<"2.0.0">>, <<"v", "2.0.0">>,
                    <<"2.0.0", "-", "rc">>} }
    \cup { BuildObject([platform |-> Undefined, arch |-> <<"x64">>,
                        channel |-> <<"beta">>, version |-> <<"2.0.0">>]) }

\* normalize(options)
NormalizeOptionsCall ==
  /\ normalOptions.status = "none"
  /\ normalOptions' = normalize(options)
  /\ UNCHANGED <<options, pubVars, manVars, normVars, progress, rendered,
                 flightVars>>

InitOptions ==
  /\ remoteUrl = DefaultRemoteUrl
  /\ builds = <<>>
  /\ InitPublish
  /\ remote = EmptyObj
  /\ lastFetch = NoFetch
  /\ lastCall = NoCall
  /\ writer = EmptyObj
  /\ calls = 0
  /\ fileName = <<>>
  /\ normalized = NotNormalized
  /\ progress = NoProgress
  /\ rendered = NotRendered
  /\ options \in [command : {"publish", "remove"},
                  platform : {<<"linux">>}, arch : {<<"x64">>},
                  channel : {<<"prod">>}, version : OptionVersions,
                  builds : UNION { [1..k -> BuildInputs] : k \in 0..MaxBuilds }]
  /\ normalOptions = NotNormalOptions
  /\ inFlight = {}
  /\ link = <<>>

NextOptions == NormalizeOptionsCall

SpecOptions == InitOptions /\ [][NextOptions]_vars

\* C14: after options normalization succeeds no build's version starts with
\* the prefix character 'v', however the version was resolved: from a
\* build-id string, a build object, options.version as the default of a
\* listed build or of the single default build; 'vv1.0.0' included.
C14_NoVersionPrefix ==
  normalOptions.status = "ok" =>
    \A i \in 1..Len(normalOptions.builds) :
      LET version == normalOptions.builds[i]["version"]
      IN  Truthy(version) => version[1] # "v"

\* the fields of a build as it was given
GivenBuild(i) == ParseBuild(options.builds[i])

\* C19: for the remove command normalization succeeds only if the build list
\* is non-empty and every build has platform, arch, channel and a version of
\* the form digits.digits.digits and nothing else; no field is filled in from
\* the options.
C19_RemoveNeedsFullBuildId ==
  (options.command = "remove" /\ normalOptions.status = "ok") =>
    /\ Len(normalOptions.builds) > 0
    /\ Len(normalOptions.builds) = Len(options.builds)
    /\ \A i \in 1..Len(normalOptions.builds) :
         LET build == normalOptions.builds[i]
         IN  /\ \A f \in {"platform", "arch", "channel", "version"} :
                  Truthy(build[f]) /\ Truthy(GivenBuild(i)[f])
             /\ \A f \in {"platform", "arch", "channel"} :
                  build[f] = GivenBuild(i)[f]
             /\ MatchesSemverAnchored(build["version"])

---------------------------------------------------------------------------
(* The local mirror *)

\* the assets of the current build whose step of the loop has completed
StepsDone ==
  IF cur > 0 /\ pc \in {"assets", "post"} THEN 1..(idx - 1) ELSE {}

\* C15: after every successful asset step the asset's file is in the local
\* mirror at <mirrorRoot>/<buildId>/<normalized file name>, the relative path
\* recorded in result.local; a failed copy fails the publish.
C15_MirrorAtNormalizedName ==
  /\ \A i \in StepsDone :
       LET n == CurBuild.assets[i].name
           f == CurBuild.assets[i].path
       IN  /\ Join(<<ArchiveDirectory, getBuildId(CurBuild, TRUE),
                     normalizeFileName(f)>>, <<"/">>) \in mirror
           /\ n \in DOMAIN resultLocal =>
                Join(<<ArchiveDirectory, resultLocal[n]>>, <<"/">>) \in mirror
  /\ failedAt = "duplicateMetaFiles" => pc = "failed"

---------------------------------------------------------------------------
(* One publish, operation by operation: every transport operation is      *)
(* started by the callback that calls it and settles later                 *)

\* what the flight actions leave alone
flightRest == <<remoteUrl, builds, idx, result, resultLocal, ops, failedAt,
                opsAtFail, localJson, mirror, listeners, archive,
                releaseJson, manVars, normVars, progVars, optVars>>

InFlightOp(o, p, i) == [op |-> o, path |-> p, asset |-> i]

Waiting == [state |-> "waiting", url |-> Undefined]

ChainReadyAtOnce(i) == TRUE

\* promise = promise.then(...): the link of asset i is chained on the link
\* of the asset before it
ChainReady(i) == IF i = 1 THEN TRUE ELSE link[i - 1].state = "done"

\* publish(): the listener is registered, beforeUpload is called
FlightPublish ==
  /\ pc = "idle"
  /\ cur' = 1
  /\ pc' = "beforeUpload"
  /\ inFlight' = inFlight \cup {InFlightOp("beforeUpload", <<>>, 0)}
  /\ UNCHANGED <<uploaded, link, flightRest>>

\* beforeUpload settles; publishAssets runs its synchronous part
FlightBeforeUploadSettles ==
  /\ pc = "beforeUpload"
  /\ inFlight' = inFlight \ {InFlightOp("beforeUpload", <<>>, 0)}
  /\ uploaded' = EmptyObj
  /\ \E ok \in BOOLEAN :
       IF ok /\ ~NoAssets(CurBuild.assets)
         THEN /\ pc' = "assets"
              /\ link' = [i \in 1..Len(CurBuild.assets) |-> Waiting]
         ELSE /\ pc' = "failed"
              /\ link' = link
  /\ UNCHANGED <<cur, flightRest>>

\* publishAssets(): the first callback of an asset's link: uploadFile is
\* called, or the cached url is taken
FlightUploadStart ==
  /\ pc = "assets"
  /\ \E i \in 1..Len(CurBuild.assets) :
       LET filePath == CurBuild.assets[i].path
       IN  /\ link[i].state = "waiting"
           /\ ChainReady(i)
           /\ IF CacheMiss(uploaded, filePath)
                THEN /\ inFlight' = inFlight
                                      \cup {InFlightOp("uploadFile", filePath, i)}
                     /\ link' = [link EXCEPT ![i].state = "uploading"]
                ELSE /\ inFlight' = inFlight
                     /\ link' = [link EXCEPT ![i] = [state |-> "resolved",
                                                     url |-> uploaded[filePath]]]
  /\ UNCHANGED <<cur, pc, uploaded, flightRest>>

\* uploadFile settles
FlightUploadSettles ==
  /\ pc = "assets"
  /\ \E i \in 1..Len(CurBuild.assets) :
       LET filePath == CurBuild.assets[i].path
       IN  /\ link[i].state = "uploading"
           /\ inFlight' = inFlight \ {InFlightOp("uploadFile", filePath, i)}
           /\ \/ /\ \E fileUrl \in UploadReturns(filePath, CurBuild) :
                      link' = [link EXCEPT ![i] = [state |-> "resolved",
                                                   url |-> fileUrl]]
                 /\ pc' = pc
              \/ /\ link' = [link EXCEPT ![i].state = "rejected"]
                 /\ pc' = "failed"
  /\ UNCHANGED <<cur, uploaded, flightRest>>

\* publishAssets(): the second and third callback of an asset's link: the
\* mirror copy, the result entry, the cache entry
FlightAssetDone ==
  /\ pc = "assets"
  /\ \E i \in 1..Len(CurBuild.assets) :
       LET filePath == CurBuild.assets[i].path
       IN  /\ link[i].state = "resolved"
           /\ \/ /\ link' = [link EXCEPT ![i].state = "done"]
                 /\ uploaded' = SetProp(uploaded, filePath,
                                        IF Truthy(link[i].url) THEN link[i].url
                                                               ELSE EmptyStr)
                 /\ pc' = IF \A j \in 1..Len(link') : link'[j].state = "done"
                            THEN "post" ELSE "assets"
              \/ /\ link' = [link EXCEPT ![i].state = "rejected"]
                 /\ uploaded' = uploaded
                 /\ pc' = "failed"
  /\ UNCHANGED <<cur, inFlight, flightRest>>

\* publish(): a darwin build: the descriptor is written, its upload started
FlightDescriptorStart ==
  /\ pc = "post"
  /\ CurBuild.platform = <<"darwin">>
  /\ inFlight' = inFlight
                   \cup {InFlightOp("uploadFile", ReleaseFilePath(CurBuild), 0)}
  /\ pc' = "descriptor"
  /\ UNCHANGED <<cur, uploaded, link, flightRest>>

\* publish(): any other platform: straight on to the record
FlightPass ==
  /\ pc = "post"
  /\ CurBuild.platform # <<"darwin">>
  /\ pc' = "manifest"
  /\ UNCHANGED <<cur, uploaded, link, inFlight, flightRest>>

\* the descriptor upload settles
FlightDescriptorSettles ==
  /\ pc = "descriptor"
  /\ inFlight' = inFlight
                   \ {InFlightOp("uploadFile", ReleaseFilePath(CurBuild), 0)}
  /\ \E ok \in BOOLEAN : pc' = IF ok THEN "manifest" ELSE "failed"
  /\ UNCHANGED <<cur, uploaded, link, flightRest>>

\* publish(): the record, duplicateUpdatesJson, then updateUpdatesJson
\* starts the fetch
FlightFetchStart ==
  /\ pc = "manifest"
  /\ \/ /\ inFlight' = inFlight \cup {InFlightOp("fetchUpdatesJson", <<>>, 0)}
        /\ pc' = "update"
     \/ /\ inFlight' = inFlight
        /\ pc' = "failed"
  /\ UNCHANGED <<cur, uploaded, link, flightRest>>

\* updateUpdatesJson(): the fetch settles; its callback starts the push
FlightFetchSettles ==
  /\ pc = "update"
  /\ InFlightOp("fetchUpdatesJson", <<>>, 0) \in inFlight
  /\ \E outcome \in FetchOutcomes :
       IF fetchUpdatesJson(outcome, remote).status = "rejected"
         THEN /\ inFlight' = inFlight
                               \ {InFlightOp("fetchUpdatesJson", <<>>, 0)}
              /\ pc' = "failed"
         ELSE /\ inFlight' = (inFlight
                                \ {InFlightOp("fetchUpdatesJson", <<>>, 0)})
                               \cup {InFlightOp("pushUpdatesJson", <<>>, 0)}
              /\ pc' = pc
  /\ UNCHANGED <<cur, uploaded, link, flightRest>>

\* updateUpdatesJson(): the push settles
FlightPushSettles ==
  /\ pc = "update"
  /\ InFlightOp("pushUpdatesJson", <<>>, 0) \in inFlight
  /\ inFlight' = inFlight \ {InFlightOp("pushUpdatesJson", <<>>, 0)}
  /\ \E ok \in BOOLEAN : pc' = IF ok THEN "compress" ELSE "failed"
  /\ UNCHANGED <<cur, uploaded, link, flightRest>>

\* publish(): compressReleases settles; its callback starts the archive
\* upload
FlightArchiveStart ==
  /\ pc = "compress"
  /\ \E outcome \in CompressOutcomes :
       IF compressSettles(outcome) = "rejected"
         THEN pc' = "failed" /\ inFlight' = inFlight
         ELSE /\ pc' = "archive"
              /\ inFlight' = inFlight
                   \cup {InFlightOp("uploadReleaseArchive",
                                    CompressCall(CurBuild).destination, 0)}
  /\ UNCHANGED <<cur, uploaded, link, flightRest>>

\* the archive upload settles; its callback calls afterUpload
FlightArchiveSettles ==
  /\ pc = "archive"
  /\ \E ok \in BOOLEAN :
       IF ok
         THEN /\ pc' = "afterUpload"
              /\ inFlight' = { InFlightOp("afterUpload", <<>>, 0) }
                   \cup { o \in inFlight : o.op # "uploadReleaseArchive" }
         ELSE /\ pc' = "failed"
              /\ inFlight' = { o \in inFlight : o.op # "uploadReleaseArchive" }
  /\ UNCHANGED <<cur, uploaded, link, flightRest>>

\* afterUpload settles
FlightAfterUploadSettles ==
  /\ pc = "afterUpload"
  /\ inFlight' = inFlight \ {InFlightOp("afterUpload", <<>>, 0)}
  /\ \E ok \in BOOLEAN : pc' = IF ok THEN "done" ELSE "failed"
  /\ UNCHANGED <<cur, uploaded, link, flightRest>>

NextFlight ==
  \/ FlightPublish
  \/ FlightBeforeUploadSettles
  \/ FlightUploadStart
  \/ FlightUploadSettles
  \/ FlightAssetDone
  \/ FlightDescriptorStart
  \/ FlightPass
  \/ FlightDescriptorSettles
  \/ FlightFetchStart
  \/ FlightFetchSettles
  \/ FlightPushSettles
  \/ FlightArchiveStart
  \/ FlightArchiveSettles
  \/ FlightAfterUploadSettles

SpecFlight == Init /\ [][NextFlight]_vars

\* the operations that go over the network
NetworkOps == {"uploadFile", "fetchUpdatesJson", "pushUpdatesJson",
               "uploadReleaseArchive"}

\* C16: during one publish at most one transport operation is in flight: the
\* upload of an asset is in flight only when the upload and the mirror copy of
\* every asset before it have completed, and the descriptor upload, the
\* manifest push and the archive upload overlap neither an asset upload nor
\* each other.
C16_OneOperationInFlight ==
  /\ Cardinality(inFlight) <= 1
  /\ \A o \in inFlight :
       /\ o.asset > 0 =>
            \A j \in 1..(o.asset - 1) : link[j].state = "done"
       /\ (o.op \in NetworkOps /\ o.asset = 0) =>
            \A j \in 1..Len(link) : link[j].state = "done"

\* the upload of a later asset is in flight, the earlier asset uploaded and
\* copied
C16_Witness ==
  \E o \in inFlight :
    /\ o.op = "uploadFile"
    /\ o.asset > 1
    /\ link[o.asset - 1].state = "done"
    /\ CurBuild.assets[o.asset - 1].path \in DOMAIN uploaded

---------------------------------------------------------------------------
(* The darwin release descriptor *)

\* the callback after publishAssets has run and resolved
PostDone ==
  cur > 0 /\ pc \in {"manifest", "update", "compress", "archive",
                     "afterUpload", "done"}

\* the url the upload of the asset n resolved to, as the dedup cache has it
AssetUrl(n) ==
  IF \E i \in 1..Len(CurBuild.assets) : CurBuild.assets[i].name = n
    THEN LET i == CHOOSE k \in 1..Len(CurBuild.assets) :
                    CurBuild.assets[k].name = n
             u == uploaded[CurBuild.assets[i].path]
         IN  IF Truthy(u) THEN u ELSE Undefined
    ELSE Undefined

\* the positions in ops of the uploadFile calls
UploadCalls == { i \in 1..Len(ops) : ops[i].op = "uploadFile" }

\* C17: for a darwin build exactly one more uploadFile call is made, for the
\* descriptor, after all asset uploads; the descriptor's url is the url of
\* the uploaded update asset and the record's update is the url the
\* descriptor upload returned.  For any other platform no descriptor is
\* written or uploaded and the asset urls are passed on as they are.
C17_DarwinDescriptor ==
  PostDone =>
    IF CurBuild.platform = <<"darwin">>
      THEN /\ CountOp("uploadFile", ReleaseFilePath(CurBuild)) = 1
           /\ CountOp("writeFileSync", ReleaseFilePath(CurBuild)) = 1
           /\ \A i \in UploadCalls :
                ops[i].path # ReleaseFilePath(CurBuild) =>
                  \E j \in UploadCalls :
                    j > i /\ ops[j].path = ReleaseFilePath(CurBuild)
           /\ Cardinality(UploadCalls) = Cardinality(DOMAIN uploaded) + 1
           /\ releaseJson.url = AssetUrl("update")
           /\ "update" \in DOMAIN result
           /\ result["update"]
                \in UploadReturns(ReleaseFilePath(CurBuild), CurBuild)
           /\ (lastCall.status = "pushed" =>
                 PushedRecord["update"] = result["update"])
      ELSE /\ ~HasOp("writeFileSync")
           /\ releaseJson = NoRelease
           /\ Cardinality(UploadCalls) = Cardinality(DOMAIN uploaded)
           /\ \A n \in DOMAIN result : result[n] = AssetUrl(n)
           /\ (lastCall.status = "pushed" /\ CurBuild.platform # <<"win32">>) =>
                PushedRecord["update"] = AssetUrl("update")

\* a darwin build is published: the descriptor has the url of the update
\* asset, the record has the url of the descriptor
C17_Witness ==
  /\ cur > 0
  /\ pc = "done"
  /\ CurBuild.platform = <<"darwin">>
  /\ Truthy(releaseJson.url)
  /\ lastCall.status = "pushed"
  /\ Truthy(PushedRecord["update"])
  /\ PushedRecord["update"] # releaseJson.url

---------------------------------------------------------------------------
(* The release archive *)

\* compressReleases has been called for the current build
Compressed ==
  cur > 0 /\ pc \in {"archive", "afterUpload", "done"}

\* C18: for every build of the invocation, at any position of the list, the
\* entries compressReleases hands to the compressor are the mirror entries of
\* that build, its buildId joined with the mirror file name of each of its
\* own assets, plus 'updates.json', and the archive goes to
\* <path>/<buildId>.tar.gz.
C18_ArchiveOfOwnAssets ==
  Compressed =>
    /\ archive.entries =
         Append(ReleaseEntries(getBuildId(CurBuild, TRUE), CurBuild.assets),
                <<"updates.json">>)
    /\ archive.destination =
         Join(<<OutputPath, getBuildId(CurBuild, TRUE) \o <<".tar.gz">>>>,
              <<"/">>)
    /\ archive.source = ArchiveDirectory

---------------------------------------------------------------------------
(* Builds published one after the other *)

\* the local paths of a build's assets
PathsOf(build) == { build.assets[i].path : i \in 1..Len(build.assets) }

\* C20: the dedup cache and the result are local to one publishAssets call:
\* whatever was published before through the same transport, each file of the
\* build is uploaded once for this build, and the result has only keys of this
\* build's assets, with urls of this build.
C20_CacheLocalToCall ==
  AssetsPublished =>
    /\ \A f \in PathsOf(CurBuild) : CountOp("uploadFile", f) = 1
    /\ DOMAIN uploaded = PathsOf(CurBuild)
    /\ \A n \in DOMAIN result :
         \E i \in 1..Len(CurBuild.assets) :
           /\ CurBuild.assets[i].name = n
           /\ result[n] = getFileUrl(CurBuild.assets[i].path, CurBuild)

\* the second build of the list has its assets published, one of them a file
\* the first build, another build, has uploaded before
C20_Witness ==
  /\ AssetsPublished
  /\ cur = 2
  /\ getBuildId(builds[1], TRUE) # getBuildId(builds[2], TRUE)
  /\ \E i \in 1..Len(CurBuild.assets) :
       /\ CurBuild.assets[i].path \in PathsOf(builds[1])
       /\ CurBuild.assets[i].name \in DOMAIN result
       /\ CountOp("uploadFile", CurBuild.assets[i].path) = 1

---------------------------------------------------------------------------
(* The progress listeners *)

\* setProgress(): this.emit('progress', ...) calls every registered listener
\* once, so one event is rendered once per registration of onProgress
RenderingsPerEvent == listeners

\* C21: after any number of builds published one after another through one
\* transport, the transport has at most one progress listener, so every
\* progress event is rendered exactly once.
C21_OneProgressListener ==
  cur > 0 => listeners <= 1 /\ RenderingsPerEvent = 1

---------------------------------------------------------------------------
(* getBuildId and normalizeBuild, one after the other *)

\* versions as package.json can have them: plain, with a pre-release part,
\* with a prefix
RoundTripVersions ==
  {<<"1.0.0">>, <<"2.0.0">>, <<"1.0.0", "-", "beta">>,
   <<"2.0.0", "-", "rc", "-", "1">>, <<"v", "1.0.0">>}

\* builds with every field non-empty
RoundTripBuilds ==
  [platform : Platforms, arch : {<<"x64">>, <<"ia32">>},
   channel : {<<"prod">>, <<"beta">>}, version : RoundTripVersions]

\* the options of a run for the one build named by its build id
InitBuildId ==
  /\ remoteUrl = DefaultRemoteUrl
  /\ builds = <<>>
  /\ InitPublish
  /\ remote = EmptyObj
  /\ lastFetch = NoFetch
  /\ lastCall = NoCall
  /\ writer = EmptyObj
  /\ calls = 0
  /\ fileName = <<>>
  /\ normalized = NotNormalized
  /\ progress = NoProgress
  /\ rendered = NotRendered
  /\ \E b \in RoundTripBuilds, command \in {"publish", "remove"} :
       options = [command |-> command, platform |-> <<"linux">>,
                  arch |-> <<"x64">>, channel |-> <<"prod">>,
                  version |-> <<"0.0.1">>,
                  builds |-> << BuildString(getBuildId(b, TRUE)) >>]
  /\ normalOptions = NotNormalOptions
  /\ inFlight = {}
  /\ link = <<>>

NextBuildId == NormalizeOptionsCall

SpecBuildId == InitBuildId /\ [][NextBuildId]_vars

\* C22: for every build with non-empty platform, arch, channel and version,
\* normalizeBuild of the string getBuildId(build, true) yields the same four
\* fields, and getBuildId of that result is the string again; versions with a
\* hyphen included.
C22_BuildIdRoundTrip ==
  normalOptions.status # "none" =>
    \A b \in RoundTripBuilds :
      options.builds = << BuildString(getBuildId(b, TRUE)) >> =>
        /\ normalOptions.status = "ok"
        /\ Len(normalOptions.builds) = 1
        /\ normalOptions.builds[1] = b
        /\ getBuildId(normalOptions.builds[1], TRUE) = getBuildId(b, TRUE)

====
